---- MODULE Spec2Model ----
(***************************************************************************)
(* Model of the green-routes map component: the recommendation pipeline    *)
(* (findBestEnvironmentalParcel, findBiggestParkOrTrail, generateParkGuide,*)
(* getRoute, buildHealthyPlan) and the view state it reads and writes.     *)
(* Two versions of the component are in the repository; `variant' says     *)
(* which one a behaviour runs:                                             *)
(*   "part_000"  src/unnamed/part_000 (ranker scans for a park, route)     *)
(*   "Map.js"    src/src/Map.js       (ranker is a bare reduce, no route)  *)
(*                                                                         *)
(* Geometry is modelled on an integer grid, one unit = one mile.  A        *)
(* geometry is the set of grid points it covers; center is the midpoint of *)
(* its bounding box (rounded down to the grid), as turf's center.          *)
(***************************************************************************)
EXTENDS Integers, Sequences, FiniteSets, TLC

VARIABLES
  variant,            \* which source file the component is
  mounted,            \* the mount effects have run
  geo,                \* navigator.geolocation.getCurrentPosition: idle/pending/done/error
  envFetch,           \* fetchEnvironmentalData: idle/pending/done/failed
  parksFetch,         \* fetchParks
  contentFetch,       \* fetchBikePathsData (part_000 only)
  userLocation,       \* useState(null)
  environmentalData,  \* useState(null)
  parks,              \* useState(null)
  bikePaths,          \* useState(null)
  bikePathsContent,   \* useState(null) (part_000 only)
  healthyPlan,        \* useState(null)
  route,              \* useState(null) (part_000 only)
  selectedParkId,     \* useState(null) (part_000 only)
  healthFetch,        \* fetchHealthcareFacilities (Map.js only)
  healthcareFacilities, \* useState(null) (Map.js only)
  accessPolygons,     \* useState(null) (Map.js only)
  runs,               \* one record per call of buildHealthyPlan, in trigger order
  ret                 \* result of the last direct call of a pure function

view == <<userLocation, environmentalData, parks, bikePaths, bikePathsContent,
          healthyPlan, route, selectedParkId>>
net == <<mounted, geo, envFetch, parksFetch, contentFetch>>
health == <<healthFetch, healthcareFacilities, accessPolygons>>
vars == <<variant, net, view, health, runs, ret>>

(***************************************************************************)
(* Bounds of the model.                                                    *)
(***************************************************************************)
MaxParcels == 3
MaxParks == 2
MaxTrails == 2
MaxPercentile == 3
MaxAcres == 2
MaxRuns == 2
MaxAttrLen == 2

(***************************************************************************)
(* Values.                                                                 *)
(***************************************************************************)
Variants == {"part_000", "Map.js"}

\* JavaScript null (the initial value of every useState of the component).
NULL == [x \in {"isNull"} |-> TRUE]

\* An exception leaving a function (a TypeError in every case modelled).
THROWN == [thrown |-> "TypeError"]

\* selectedParkId is a string or null; null is kept apart from every name.
NULL_ID == "null"

\* The fixed bounding box [west, south, east, north], on the model's grid.
SD_BOUNDS == <<0, 0, 3, 1>>

\* buffer(userPoint, 2, { units: 'miles' })
BUFFER_MILES == 2

FALLBACK_GUIDE == "Sorry, we couldn't generate a guide for this park at the moment."
SERVICE_GUIDE == "guide text returned by the narrative service"

(***************************************************************************)
(* Geometry (@turf/turf, as the component uses it).                        *)
(***************************************************************************)
SetMin(S) == CHOOSE m \in S : \A x \in S : m <= x
SetMax(S) == CHOOSE m \in S : \A x \in S : m >= x

\* isWithinSanDiego([lon, lat])
isWithinSanDiego(c) ==
  /\ c[1] >= SD_BOUNDS[1] /\ c[1] <= SD_BOUNDS[3]
  /\ c[2] >= SD_BOUNDS[2] /\ c[2] <= SD_BOUNDS[4]

\* center(feature).geometry.coordinates: the middle of the bounding box.
center(f) ==
  LET xs == {c[1] : c \in f.geometry.coordinates}
      ys == {c[2] : c \in f.geometry.coordinates}
  IN  <<(SetMin(xs) + SetMax(xs)) \div 2, (SetMin(ys) + SetMax(ys)) \div 2>>

\* buffer(point(loc), radius, miles): the polygon of the points within radius.
\* It is given by its centre and radius; membership is decided by distance.
buffer(loc, radius) == [origin |-> loc, radius |-> radius]

\* booleanPointInPolygon(pt, buffer polygon)
booleanPointInBuffer(pt, buf) ==
  LET dx == pt[1] - buf.origin[1]
      dy == pt[2] - buf.origin[2]
  IN  dx * dx + dy * dy <= buf.radius * buf.radius

\* booleanPointInPolygon(pt, feature)
booleanPointInPolygon(pt, poly) == pt \in poly.geometry.coordinates

(***************************************************************************)
(* Features.                                                               *)
(***************************************************************************)
FeatureCollection(fs) == [type |-> "FeatureCollection", features |-> fs]

Parcel(cells, pct) ==
  [type |-> "Feature",
   geometry |-> [type |-> "Polygon", coordinates |-> cells],
   properties |-> [percentile |-> pct]]

Park(cells, acres, name) ==
  [type |-> "Feature",
   geometry |-> [type |-> "Polygon", coordinates |-> cells],
   properties |-> [acres |-> acres, common_name |-> name]]

Trail(cells, name) ==
  [type |-> "Feature",
   geometry |-> [type |-> "LineString", coordinates |-> cells],
   properties |-> [name |-> name]]

\* A property read: f.properties[k] is undefined when the key is absent.
HasProp(f, k) == k \in DOMAIN f.properties

\* a.properties[k] > b.properties[k] in JavaScript: false when either side is
\* undefined (the comparison is with NaN).
PropGreater(a, b, k) ==
  /\ HasProp(a, k)
  /\ HasProp(b, k)
  /\ a.properties[k] > b.properties[k]

(***************************************************************************)
(* Array helpers, as the JavaScript engine computes them.                  *)
(***************************************************************************)
\* A comparator that is positive on equal percentiles too (>= for >).
ComparatorPositive_OnTies(a, b) ==
  /\ HasProp(a, "percentile")
  /\ HasProp(b, "percentile")
  /\ b.properties.percentile >= a.properties.percentile

\* The comparator of the ranker's sort, (a, b) => b.percentile - a.percentile,
\* is positive exactly when b's percentile is greater than a's; a NaN result
\* counts as 0 (SortCompare).
ComparatorPositive(a, b) == PropGreater(b, a, "percentile")

\* One step of a stable insertion sort: x goes after the last element that
\* the comparator does not put behind it.
RECURSIVE InsertSorted(_, _)
InsertSorted(sorted, x) ==
  IF sorted = <<>> THEN <<x>>
  ELSE LET n == Len(sorted)
           y == sorted[n]
       IN  IF ComparatorPositive(y, x)
           THEN InsertSorted(SubSeq(sorted, 1, n - 1), x) \o <<y>>
           ELSE sorted \o <<x>>

\* Array.prototype.sort((a, b) => b.properties.percentile - a.properties.percentile):
\* stable (ECMAScript 2019), descending percentile.
RECURSIVE SortByPercentile(_)
SortByPercentile(s) ==
  IF s = <<>> THEN <<>>
  ELSE InsertSorted(SortByPercentile(SubSeq(s, 1, Len(s) - 1)), s[Len(s)])

\* A reduce callback that replaces the accumulator on equality too (>= for >).
ReduceStep_OnTies(best, current, k) ==
  IF HasProp(current, k) /\ HasProp(best, k)
     /\ current.properties[k] >= best.properties[k]
  THEN current ELSE best

\* The callback of both reduce calls: (best, current) =>
\*   (current.properties[k] > best.properties[k]) ? current : best
ReduceStep(best, current, k) ==
  IF PropGreater(current, best, k) THEN current ELSE best

\* Array.prototype.reduce(callback) with no initial value, on a non-empty
\* array: the accumulator starts as the first element.
RECURSIVE ReduceFrom(_, _, _)
ReduceFrom(acc, rest, k) ==
  IF rest = <<>> THEN acc
  ELSE ReduceFrom(ReduceStep(acc, Head(rest), k), Tail(rest), k)

\* Array.prototype.reduce(callback) with no initial value: a TypeError on an
\* empty array.
ReduceNoInitial(s, k) ==
  IF s = <<>> THEN THROWN ELSE ReduceFrom(Head(s), Tail(s), k)

(***************************************************************************)
(* The ranker and the destination selector.                                *)
(***************************************************************************)
\* parks.features.filter(park => booleanPointInPolygon(center(park), parcel))
FeaturesInParcel(features, parcel) ==
  SelectSeq(features, LAMBDA f : booleanPointInPolygon(center(f), parcel))

\* A filter that loses the first parcel it would keep.
ParcelsInBuffer_DropFirst(uLoc, env) ==
  LET buffer2Miles == buffer(uLoc, BUFFER_MILES)
      kept == SelectSeq(env.features,
                        LAMBDA f : booleanPointInBuffer(center(f), buffer2Miles))
  IN  IF kept = <<>> THEN kept ELSE Tail(kept)

\* environmentalData.features.filter(feature =>
\*   booleanPointInPolygon(center(feature), buffer2Miles))
ParcelsInBuffer(uLoc, env) ==
  LET buffer2Miles == buffer(uLoc, BUFFER_MILES)
  IN  SelectSeq(env.features,
                LAMBDA f : booleanPointInBuffer(center(f), buffer2Miles))

\* A ranker that sorts environmentalData.features itself.
StoredAfterRanking_SortedInPlace(env) == FeatureCollection(SortByPercentile(env.features))

\* What the filter stage leaves in environmentalData: filter returns a new
\* array, and the sort of part_000 is chained on that array, so the stored
\* collection is as before.
StoredAfterRanking(env) == env

\* A scan that returns the top parcel without looking for a park in it.
FirstParcelWithPark_AnyParcel(parcelsInRange, pk) ==
  IF parcelsInRange = <<>> THEN NULL ELSE Head(parcelsInRange)

\* for (const parcel of parcelsInRange) { if (parksInParcel.length > 0) return parcel; }
\* return null;
RECURSIVE FirstParcelWithPark(_, _)
FirstParcelWithPark(parcelsInRange, pk) ==
  IF parcelsInRange = <<>> THEN NULL
  ELSE IF Len(FeaturesInParcel(pk.features, Head(parcelsInRange))) > 0
       THEN Head(parcelsInRange)
       ELSE FirstParcelWithPark(Tail(parcelsInRange), pk)

\* findBestEnvironmentalParcel of part_000: filter to the buffer, sort by
\* descending percentile, return the first parcel with a park inside.
findBestEnvironmentalParcel(uLoc, env, pk) ==
  IF uLoc = NULL \/ env = NULL \/ pk = NULL THEN NULL
  ELSE FirstParcelWithPark(SortByPercentile(ParcelsInBuffer(uLoc, env)), pk)

\* findBestEnvironmentalParcel of Map.js: filter to the buffer, then reduce
\* to the greatest percentile; the reduce has no initial value.
findBestEnvironmentalParcel_MapJs(uLoc, env) ==
  IF uLoc = NULL \/ env = NULL THEN NULL
  ELSE ReduceNoInitial(ParcelsInBuffer(uLoc, env), "percentile")

\* The ranker of the variant.
BestParcel(v, uLoc, env, pk) ==
  IF v = "part_000" THEN findBestEnvironmentalParcel(uLoc, env, pk)
  ELSE findBestEnvironmentalParcel_MapJs(uLoc, env)

\* A selector that takes the last trail inside the parcel instead of the first.
findBiggestParkOrTrail_LastTrail(parcel, pk, bp) ==
  IF pk = NULL \/ bp = NULL THEN NULL
  ELSE LET parksInParcel == FeaturesInParcel(pk.features, parcel)
           trailsInParcel == FeaturesInParcel(bp.features, parcel)
       IN  IF Len(parksInParcel) > 0
           THEN ReduceNoInitial(parksInParcel, "acres")
           ELSE IF Len(trailsInParcel) > 0
                THEN trailsInParcel[Len(trailsInParcel)] ELSE NULL

\* findBiggestParkOrTrail (the same text in both files).
findBiggestParkOrTrail(parcel, pk, bp) ==
  IF pk = NULL \/ bp = NULL THEN NULL
  ELSE LET parksInParcel == FeaturesInParcel(pk.features, parcel)
           trailsInParcel == FeaturesInParcel(bp.features, parcel)
       IN  IF Len(parksInParcel) > 0
           THEN ReduceNoInitial(parksInParcel, "acres")
           ELSE IF Len(trailsInParcel) > 0 THEN trailsInParcel[1] ELSE NULL

(***************************************************************************)
(* The data sources and the external services.                             *)
(***************************************************************************)
\* fetchEnvironmentalData: the response's features whose centre is inside
\* SD_BOUNDS, as a FeatureCollection.
StoredEnvironmentalData(response) ==
  FeatureCollection(SelectSeq(response, LAMBDA f : isWithinSanDiego(center(f))))

\* A feature of the parks service: { geometry: { rings }, attributes }.
RawPark(cells, attributes) ==
  [geometry |-> [rings |-> cells], attributes |-> attributes]

\* fetchParks: each feature mapped to a GeoJSON polygon, then the same filter.
StoredParks(response) ==
  LET mapped == [i \in 1..Len(response) |->
                   [type |-> "Feature",
                    geometry |-> [type |-> "Polygon",
                                  coordinates |-> response[i].geometry.rings],
                    properties |-> response[i].attributes]]
  IN  FeatureCollection(SelectSeq(mapped, LAMBDA f : isWithinSanDiego(center(f))))

\* A facility of the healthcare service's response: a point with attributes.
RawFacility(xy, attributes) == [geometry |-> [x |-> xy[1], y |-> xy[2]], attributes |-> attributes]

\* fetchHealthcareFacilities: map the response to Point features, keep those
\* inside SD_BOUNDS.
StoredFacilities(response) ==
  LET mapped == [i \in 1..Len(response) |->
                   [type |-> "Feature",
                    geometry |-> [type |-> "Point",
                                  coordinates |-> <<response[i].geometry.x,
                                                    response[i].geometry.y>>],
                    properties |-> response[i].attributes]]
  IN  FeatureCollection(SelectSeq(mapped, LAMBDA f : isWithinSanDiego(f.geometry.coordinates)))

\* distance(cellCenter, facility) > km kilometres, one grid unit being a mile
\* (1 mile^2 = 2.59 km^2).
FartherThanKm(a, b, km) ==
  259 * ((a[1] - b[1]) * (a[1] - b[1]) + (a[2] - b[2]) * (a[2] - b[2])) > 100 * km * km

\* generateAccessPolygons: the cells of the grid over the facilities' bounding
\* box, red when the nearest facility is more than 5 km away, yellow when more
\* than 3 km; the cells of one colour are dissolved into one feature.
generateAccessPolygons(facilities) ==
  LET pts == {facilities.features[i].geometry.coordinates : i \in 1..Len(facilities.features)}
      xs == {q[1] : q \in pts}
      ys == {q[2] : q \in pts}
      grid == IF pts = {} THEN {}
              ELSE (SetMin(xs)..SetMax(xs)) \X (SetMin(ys)..SetMax(ys))
      red == {c \in grid : \A q \in pts : FartherThanKm(c, q, 5)}
      yellow == {c \in grid \ red : \A q \in pts : FartherThanKm(c, q, 3)}
      merged(cells, color) ==
        IF cells = {} THEN <<>>
        ELSE <<[type |-> "Feature",
                geometry |-> [type |-> "Polygon", coordinates |-> cells],
                properties |-> [color |-> color]]>>
  IN  FeatureCollection(merged(red, "red") \o merged(yellow, "yellow"))

\* The settled value of an async function.
Resolved(v) == [settled |-> "resolved", value |-> v]
Rejected == [settled |-> "rejected"]

\* generateParkGuide, up to its request: building the prompt evaluates
\* parkInfo.acres.toFixed(2), a TypeError when the feature has no acres.
generateParkGuide_Prompt(park) ==
  IF HasProp(park, "acres") THEN Resolved("prompt") ELSE Rejected

\* A generateParkGuide whose catch block rethrows.
generateParkGuide_Result_Rethrow(serviceOk) ==
  IF serviceOk THEN Resolved(SERVICE_GUIDE) ELSE Rejected

\* generateParkGuide, from its request on: the text of the service, or the
\* fixed string of the catch block.
generateParkGuide_Result(serviceOk) ==
  IF serviceOk THEN Resolved(SERVICE_GUIDE) ELSE Resolved(FALLBACK_GUIDE)

\* generateParkGuide(park) as a whole: the prompt is built outside the try
\* block, the request is made inside it.
generateParkGuide(park, serviceOk) ==
  IF generateParkGuide_Prompt(park) = Rejected THEN Rejected
  ELSE generateParkGuide_Result(serviceOk)

\* The walking path the directions service returns.
RouteFeature(start, end) ==
  [type |-> "Feature", properties |-> <<>>,
   geometry |-> [type |-> "LineString", coordinates |-> <<start, end>>]]

\* A getRoute without its try/catch: a failed request rejects.
getRoute_NoCatch(start, end, serviceOk) ==
  IF serviceOk THEN Resolved(RouteFeature(start, end)) ELSE Rejected

\* getRoute: the route as a feature, or null from the catch block.
getRoute(start, end, serviceOk) ==
  IF serviceOk THEN Resolved(RouteFeature(start, end)) ELSE Resolved(NULL)

(***************************************************************************)
(* buildHealthyPlan.  A run is one call; it reads the state of the render  *)
(* in which the button was clicked (cap), also after its awaits.           *)
(***************************************************************************)
Truthy(name) == name # ""

\* The plan record of setHealthyPlan.
\* A setHealthyPlan whose type is always 'Park'.
PlanOf_AlwaysPark(bestParcel, bestLocation, guide) ==
  [type |-> "Park",
   location |-> bestLocation,
   environmentalRating |-> bestParcel.properties.percentile,
   guide |-> guide]

PlanOf(bestParcel, bestLocation, guide) ==
  [type |-> IF bestLocation.geometry.type = "Polygon" THEN "Park" ELSE "Trail",
   location |-> bestLocation,
   environmentalRating |-> bestParcel.properties.percentile,
   guide |-> guide]

\* updatedParks: every park gets selected: (common_name === parkId).
TagSelected(pk, parkId) ==
  [pk EXCEPT !.features =
     [i \in 1..Len(pk.features) |->
        [pk.features[i] EXCEPT !.properties =
           [k \in DOMAIN pk.features[i].properties \cup {"selected"} |->
              IF k = "selected"
              THEN HasProp(pk.features[i], "common_name")
                   /\ pk.features[i].properties.common_name = parkId
              ELSE pk.features[i].properties[k]]]]]

\* const parkId = bestLocation.properties.common_name; if (parkId) ...
HasParkId(bestLocation) ==
  HasProp(bestLocation, "common_name") /\ Truthy(bestLocation.properties.common_name)

\* A buildHealthyPlan that calls getUserLocation() when userLocation is null.
GeoAfterTrigger_OnDemand(geoState, uLoc) ==
  IF uLoc = NULL THEN "pending" ELSE geoState

\* The geolocation state after a click on the button: buildHealthyPlan never
\* calls getUserLocation, whatever userLocation is.
GeoAfterTrigger(geoState, uLoc) == geoState

\* if (userLocation && bikePathsContent): the route request of part_000.
RequestsRoute(v, cap) ==
  /\ v = "part_000"
  /\ cap.userLocation # NULL
  /\ cap.bikePathsContent # NULL

\* A buildHealthyPlan that starts the route request together with the
\* narrative request instead of after it.
buildHealthyPlan_Start_Parallel(v, cap, note) ==
  LET bestParcel == BestParcel(v, cap.userLocation, cap.environmentalData, cap.parks)
      found == bestParcel # NULL /\ bestParcel # THROWN
      bestLocation == IF found
                      THEN findBiggestParkOrTrail(bestParcel, cap.parks, cap.bikePaths)
                      ELSE NULL
      prompt == IF bestLocation # NULL THEN generateParkGuide_Prompt(bestLocation)
                ELSE Rejected
  IN  [cap |-> cap,
       note |-> note,
       bestParcel |-> IF found THEN bestParcel ELSE NULL,
       bestLocation |-> bestLocation,
       status |-> IF bestParcel = THROWN THEN "threw"
                  ELSE IF bestLocation = NULL THEN "stopped"
                  ELSE IF prompt = Rejected THEN "threw"
                  ELSE "running",
       narrative |-> IF bestLocation # NULL /\ prompt # Rejected THEN "pending" ELSE "none",
       directions |-> IF bestLocation # NULL /\ prompt # Rejected /\ RequestsRoute(v, cap)
                      THEN "pending" ELSE "none",
       guide |-> "",
       pubSeq |-> 0]

\* A start that asks for the narrative without the two guards
\* if (bestParcel) and if (bestLocation).
buildHealthyPlan_Start_Unguarded(v, cap, note) ==
  LET bestParcel == BestParcel(v, cap.userLocation, cap.environmentalData, cap.parks)
      found == bestParcel # NULL /\ bestParcel # THROWN
      bestLocation == IF found
                      THEN findBiggestParkOrTrail(bestParcel, cap.parks, cap.bikePaths)
                      ELSE NULL
  IN  [cap |-> cap,
       note |-> note,
       bestParcel |-> IF found THEN bestParcel ELSE NULL,
       bestLocation |-> bestLocation,
       status |-> IF bestParcel = THROWN THEN "threw" ELSE "running",
       narrative |-> "pending",
       directions |-> "none",
       guide |-> "",
       pubSeq |-> 0]

\* The synchronous start of buildHealthyPlan, up to its first await: the
\* ranker, the selector and the prompt of generateParkGuide.  The run record
\* keeps the state the call captured (cap), what it has computed, the state
\* of its two requests, and notes for the properties (note, pubSeq).
buildHealthyPlan_Start(v, cap, note) ==
  LET bestParcel == BestParcel(v, cap.userLocation, cap.environmentalData, cap.parks)
      found == bestParcel # NULL /\ bestParcel # THROWN
      bestLocation == IF found
                      THEN findBiggestParkOrTrail(bestParcel, cap.parks, cap.bikePaths)
                      ELSE NULL
      prompt == IF bestLocation # NULL THEN generateParkGuide_Prompt(bestLocation)
                ELSE Rejected
  IN  [cap |-> cap,
       note |-> note,
       bestParcel |-> IF found THEN bestParcel ELSE NULL,
       bestLocation |-> bestLocation,
       status |-> IF bestParcel = THROWN THEN "threw"
                  ELSE IF bestLocation = NULL THEN "stopped"
                  ELSE IF prompt = Rejected THEN "threw"
                  ELSE "running",
       narrative |-> IF bestLocation # NULL /\ prompt # Rejected THEN "pending" ELSE "none",
       directions |-> "none",
       guide |-> "",
       pubSeq |-> 0]

\* setRoute(routeGeojson) that keeps the old route when getRoute returned null.
RouteWritten_KeepOnNull(oldRoute, routeGeojson) ==
  IF routeGeojson = NULL THEN oldRoute ELSE routeGeojson

\* setRoute(routeGeojson)
RouteWritten(oldRoute, routeGeojson) == routeGeojson

(***************************************************************************)
(* Inputs of the direct calls (specifications SpecRank and SpecDest).      *)
(* Every collection is one the fetchers can have stored: all features lie  *)
(* inside SD_BOUNDS, parcels carry a percentile and parks an acres value.  *)
(***************************************************************************)
SeqsUpTo(S, n) == UNION {[1..k -> S] : k \in 0..n}

\* A parcel covering one column of the grid (all latitudes of the box).
Column(x) == {<<x, y>> : y \in SD_BOUNDS[2]..SD_BOUNDS[4]}

\* The user stands at the south-west corner; columns 0 and 1 have their
\* centre inside the 2-mile buffer, column 3 has not.
RankUser == <<0, 0>>
RankColumns == {0, 1, 3}
RankParcels == {Parcel(Column(x), p) : x \in RankColumns, p \in 1..MaxPercentile}
RankParkSites == {<<0, 0>>, <<1, 1>>, <<3, 0>>}
RankTrailSites == {<<0, 1>>, <<1, 0>>}

\* Census tracts are distinct polygons.
DistinctGeometry(s) ==
  \A i, j \in 1..Len(s) : i # j => s[i].geometry # s[j].geometry

RankEnvInputs ==
  {FeatureCollection(s) : s \in {t \in SeqsUpTo(RankParcels, MaxParcels) : DistinctGeometry(t)}}
RankParkInputs ==
  {NULL} \cup {FeatureCollection(s) : s \in SeqsUpTo({Park({c}, 1, "P") : c \in RankParkSites}, MaxParks)}
RankTrailInputs ==
  {FeatureCollection(s) : s \in SeqsUpTo({Trail({c}, "T") : c \in RankTrailSites}, 1)}

\* The selector is called on the parcel of column 0; a site is inside it
\* (away from its centre) or outside.
DestParcel == Parcel(Column(0), 1)
DestSites == {<<0, 1>>, <<1, 0>>}
DestParkInputs ==
  {NULL} \cup {FeatureCollection(s) :
       s \in SeqsUpTo({Park({c}, a, n) : c \in DestSites, a \in 1..MaxAcres, n \in {"A", "B"}},
                      MaxParks)}
DestTrailInputs ==
  {FeatureCollection(s) :
       s \in SeqsUpTo({Trail({c}, n) : c \in DestSites, n \in {"T1", "T2"}}, MaxTrails)}

NoCall == [fn |-> "none"]

\* The variables the direct calls do not read: the component is mounted, its
\* fetches have settled (one that left its state null has failed) and no plan
\* has been built.
SettledIdle ==
  /\ mounted = TRUE
  /\ geo = (IF userLocation = NULL THEN "error" ELSE "done")
  /\ envFetch = "done"
  /\ parksFetch = (IF parks = NULL THEN "failed" ELSE "done")
  /\ contentFetch = "failed"
  /\ bikePathsContent = NULL
  /\ healthyPlan = NULL /\ route = NULL /\ selectedParkId = NULL_ID
  /\ healthFetch = (IF variant = "Map.js" THEN "failed" ELSE "idle")
  /\ healthcareFacilities = NULL /\ accessPolygons = NULL
  /\ runs = <<>>
  /\ ret = NoCall

InitRank ==
  /\ variant \in Variants
  /\ userLocation \in {NULL, RankUser}
  /\ environmentalData \in RankEnvInputs
  /\ parks \in RankParkInputs
  /\ bikePaths \in RankTrailInputs
  /\ SettledIdle

\* A direct call of findBestEnvironmentalParcel() on the current view state.
CallFindBest ==
  /\ ret = NoCall
  /\ ret' = [fn |-> "findBestEnvironmentalParcel",
             value |-> BestParcel(variant, userLocation, environmentalData, parks)]
  /\ UNCHANGED <<variant, net, view, runs>>
  /\ UNCHANGED health

NextRank == CallFindBest

SpecRank == InitRank /\ [][NextRank]_vars

\* The filter stage of the ranker, called on the current view state (the
\* ranker returns before it when a collection is not loaded).
CallParcelsInRange ==
  /\ ret = NoCall
  /\ userLocation # NULL /\ environmentalData # NULL
  /\ ret' = [fn |-> "parcelsInRange",
             value |-> ParcelsInBuffer(userLocation, environmentalData)]
  /\ environmentalData' = StoredAfterRanking(environmentalData)
  /\ UNCHANGED <<variant, net, userLocation, parks, bikePaths, bikePathsContent,
                 healthyPlan, route, selectedParkId, runs>>
  /\ UNCHANGED health

\* The same filter, same origin and radius, on the collection it returned.
CallFilterAgain ==
  /\ ret # NoCall /\ ret.fn = "parcelsInRange"
  /\ ret' = [fn |-> "filterAgain", input |-> ret.value,
             value |-> ParcelsInBuffer(userLocation, FeatureCollection(ret.value))]
  /\ UNCHANGED <<variant, net, view, runs>>
  /\ UNCHANGED health

NextFilter ==
  \/ CallParcelsInRange
  \/ CallFilterAgain

SpecFilter == InitRank /\ [][NextFilter]_vars

InitDest ==
  /\ variant \in Variants
  /\ userLocation = RankUser
  /\ environmentalData = FeatureCollection(<<DestParcel>>)
  /\ parks \in DestParkInputs
  /\ bikePaths \in DestTrailInputs
  /\ SettledIdle

\* A direct call of findBiggestParkOrTrail(parcel) on the current view state.
CallFindBiggest ==
  /\ ret = NoCall
  /\ ret' = [fn |-> "findBiggestParkOrTrail", parcel |-> DestParcel,
             value |-> findBiggestParkOrTrail(DestParcel, parks, bikePaths)]
  /\ UNCHANGED <<variant, net, view, runs>>
  /\ UNCHANGED health

NextDest == CallFindBiggest

SpecDest == InitDest /\ [][NextDest]_vars

(***************************************************************************)
(* Direct calls on collections whose features may lack a numeric attribute *)
(* (specification SpecAttr): the services' attributes are stored as they   *)
(* come (properties: feature.attributes), nothing checks that percentile   *)
(* or acres is present.                                                    *)
(***************************************************************************)
\* A parcel whose properties carry no percentile.
ParcelWithout(cells) ==
  [type |-> "Feature",
   geometry |-> [type |-> "Polygon", coordinates |-> cells],
   properties |-> [geoid |-> "tract"]]

\* A park whose properties carry no acres.
ParkWithout(cells, name) ==
  [type |-> "Feature",
   geometry |-> [type |-> "Polygon", coordinates |-> cells],
   properties |-> [common_name |-> name]]

AttrColumns == {0, 1}
AttrParcels ==
  {Parcel(Column(x), p) : x \in AttrColumns, p \in {1, 2}}
    \cup {ParcelWithout(Column(x)) : x \in AttrColumns}
AttrParkSites == {<<0, 1>>, <<1, 1>>}
AttrParks ==
  {Park({c}, a, "P") : c \in AttrParkSites, a \in {1, 2}}
    \cup {ParkWithout({c}, "Q") : c \in AttrParkSites}
AttrEnvInputs ==
  {FeatureCollection(s) : s \in {t \in SeqsUpTo(AttrParcels, MaxAttrLen) : DistinctGeometry(t)}}
AttrParkInputs == {FeatureCollection(s) : s \in SeqsUpTo(AttrParks, MaxAttrLen)}
AttrTrailInputs == {FeatureCollection(<<>>), FeatureCollection(<<Trail({<<1, 0>>}, "T")>>)}

InitAttr ==
  /\ variant \in Variants
  /\ userLocation = RankUser
  /\ environmentalData \in AttrEnvInputs
  /\ parks \in AttrParkInputs
  /\ bikePaths \in AttrTrailInputs
  /\ SettledIdle

\* A direct call of findBiggestParkOrTrail on a parcel of environmentalData.
CallFindBiggestIn ==
  /\ ret = NoCall
  /\ \E k \in 1..Len(environmentalData.features) :
        ret' = [fn |-> "findBiggestParkOrTrail", parcel |-> environmentalData.features[k],
                value |-> findBiggestParkOrTrail(environmentalData.features[k], parks,
                                                 bikePaths)]
  /\ UNCHANGED <<variant, net, view, runs>>
  /\ UNCHANGED health

\* A direct call of generateParkGuide on a destination the selector returns.
CallGenerateParkGuide ==
  /\ ret = NoCall
  /\ \E k \in 1..Len(environmentalData.features), serviceOk \in BOOLEAN :
        LET bestLocation == findBiggestParkOrTrail(environmentalData.features[k], parks,
                                                   bikePaths)
        IN  /\ bestLocation # NULL
            /\ ret' = [fn |-> "generateParkGuide", park |-> bestLocation,
                       serviceOk |-> serviceOk,
                       value |-> generateParkGuide(bestLocation, serviceOk)]
  /\ UNCHANGED <<variant, net, view, runs>>
  /\ UNCHANGED health

NextAttr ==
  \/ CallFindBest
  \/ CallFindBiggestIn
  \/ CallGenerateParkGuide

SpecAttr == InitAttr /\ [][NextAttr]_vars

(***************************************************************************)
(* The component as a state machine (specification Spec).                  *)
(***************************************************************************)
\* The places of the device and the responses of the services.
UserNear == <<0, 0>>
UserFar == <<3, 1>>
UserLocations == {UserNear, UserFar}

\* Parcels of columns 0 and 1 (both within 2 miles of UserNear, neither of
\* UserFar) and one outside SD_BOUNDS.
EnvResponses ==
  {<<Parcel(Column(0), 3), Parcel(Column(1), 2), Parcel(Column(5), 3)>>,
   <<Parcel(Column(1), 1)>>}

\* Parks in column 1 only (the better parcel of column 0 holds none) and a
\* park outside SD_BOUNDS; one park in column 0; a park whose attributes
\* (outFields: '*') carry no common_name; a park whose attributes carry no
\* acres; two parks of one common_name (nothing makes the names unique).
ParksResponses ==
  {<<RawPark({<<1, 1>>}, [acres |-> 2, common_name |-> "A"]),
     RawPark({<<1, 0>>}, [acres |-> 1, common_name |-> "B"]),
     RawPark({<<5, 0>>}, [acres |-> 3, common_name |-> "C"])>>,
   <<RawPark({<<0, 1>>}, [acres |-> 1, common_name |-> "D"])>>,
   <<RawPark({<<0, 0>>}, [acres |-> 2])>>,
   <<RawPark({<<1, 1>>}, [common_name |-> "E"])>>,
   <<RawPark({<<1, 1>>}, [acres |-> 2, common_name |-> "F"]),
     RawPark({<<1, 0>>}, [acres |-> 1, common_name |-> "F"])>>}

\* import bikePathsData from './geo_data/bike_routes_datasd.geojson'
BikePathsData == FeatureCollection(<<Trail({<<0, 0>>}, "T1")>>)

\* What the imported file can hold: the file is not filtered by anything, so
\* its trails may lie anywhere and carry any properties.  One trail in
\* column 0; one trail in column 1 and one outside SD_BOUNDS; one trail in
\* column 0 whose properties include an acres value.
BikePathsFiles ==
  {BikePathsData,
   FeatureCollection(<<Trail({<<1, 0>>}, "T2"), Trail({<<5, 1>>}, "T3")>>),
   FeatureCollection(<<[type |-> "Feature",
                        geometry |-> [type |-> "LineString", coordinates |-> {<<0, 0>>}],
                        properties |-> [name |-> "T4", acres |-> 1]]>>)}

Init ==
  /\ variant \in Variants
  /\ mounted = FALSE
  /\ geo = "idle" /\ envFetch = "idle" /\ parksFetch = "idle" /\ contentFetch = "idle"
  /\ userLocation = NULL /\ environmentalData = NULL /\ parks = NULL
  /\ bikePaths = NULL /\ bikePathsContent = NULL
  /\ healthyPlan = NULL /\ route = NULL /\ selectedParkId = NULL_ID
  /\ healthFetch = "idle" /\ healthcareFacilities = NULL /\ accessPolygons = NULL
  /\ runs = <<>>
  /\ ret = NoCall

\* The mount effects: fetchBikePathsData() (part_000),
\* fetchHealthcareFacilities() (Map.js), fetchEnvironmentalData(),
\* loadBikePaths(), fetchParks(), getUserLocation().
Mount ==
  /\ ~mounted
  /\ mounted' = TRUE
  /\ envFetch' = "pending"
  /\ parksFetch' = "pending"
  /\ contentFetch' = (IF variant = "part_000" THEN "pending" ELSE "idle")
  /\ \E bikePathsData \in BikePathsFiles : bikePaths' = bikePathsData
  /\ \E supported \in BOOLEAN : geo' = (IF supported THEN "pending" ELSE "error")
  /\ healthFetch' = (IF variant = "Map.js" THEN "pending" ELSE "idle")
  /\ UNCHANGED <<healthcareFacilities, accessPolygons>>
  /\ UNCHANGED <<variant, userLocation, environmentalData, parks, bikePathsContent,
                 healthyPlan, route, selectedParkId, runs, ret>>

\* getCurrentPosition's success callback.
GeoSuccess ==
  /\ geo = "pending"
  /\ \E loc \in UserLocations : userLocation' = loc
  /\ geo' = "done"
  /\ UNCHANGED <<variant, mounted, envFetch, parksFetch, contentFetch, environmentalData,
                 parks, bikePaths, bikePathsContent, healthyPlan, route, selectedParkId,
                 runs, ret>>
  /\ UNCHANGED health

\* getCurrentPosition's error callback.
GeoError ==
  /\ geo = "pending"
  /\ geo' = "error"
  /\ UNCHANGED <<variant, mounted, envFetch, parksFetch, contentFetch, view, runs, ret>>
  /\ UNCHANGED health

EnvFetchDone ==
  /\ envFetch = "pending"
  /\ \E response \in EnvResponses : environmentalData' = StoredEnvironmentalData(response)
  /\ envFetch' = "done"
  /\ UNCHANGED <<variant, mounted, geo, parksFetch, contentFetch, userLocation, parks,
                 bikePaths, bikePathsContent, healthyPlan, route, selectedParkId, runs, ret>>
  /\ UNCHANGED health

EnvFetchFail ==
  /\ envFetch = "pending"
  /\ envFetch' = "failed"
  /\ UNCHANGED <<variant, mounted, geo, parksFetch, contentFetch, view, runs, ret>>
  /\ UNCHANGED health

ParksFetchDone ==
  /\ parksFetch = "pending"
  /\ \E response \in ParksResponses : parks' = StoredParks(response)
  /\ parksFetch' = "done"
  /\ UNCHANGED <<variant, mounted, geo, envFetch, contentFetch, userLocation,
                 environmentalData, bikePaths, bikePathsContent, healthyPlan, route,
                 selectedParkId, runs, ret>>
  /\ UNCHANGED health

\* A fetchParks whose catch block also clears the environmental layer.
ParksFetchFail_ClearsEnvironmentalData ==
  /\ parksFetch = "pending"
  /\ parksFetch' = "failed"
  /\ environmentalData' = NULL
  /\ UNCHANGED <<variant, mounted, geo, envFetch, contentFetch, userLocation, parks,
                 bikePaths, bikePathsContent, healthyPlan, route, selectedParkId,
                 health, runs, ret>>

ParksFetchFail ==
  /\ parksFetch = "pending"
  /\ parksFetch' = "failed"
  /\ UNCHANGED <<variant, mounted, geo, envFetch, contentFetch, view, runs, ret>>
  /\ UNCHANGED health

\* fetchBikePathsData: setBikePathsContent(data)
ContentFetchDone ==
  /\ contentFetch = "pending"
  /\ bikePathsContent' = BikePathsData
  /\ contentFetch' = "done"
  /\ UNCHANGED <<variant, mounted, geo, envFetch, parksFetch, userLocation,
                 environmentalData, parks, bikePaths, healthyPlan, route, selectedParkId,
                 runs, ret>>
  /\ UNCHANGED health

ContentFetchFail ==
  /\ contentFetch = "pending"
  /\ contentFetch' = "failed"
  /\ UNCHANGED <<variant, mounted, geo, envFetch, parksFetch, view, runs, ret>>
  /\ UNCHANGED health

\* The healthcare service's responses: a facility inside SD_BOUNDS and one
\* outside; three facilities inside.
HealthResponses ==
  {<<RawFacility(<<1, 0>>, [name |-> "H1"]), RawFacility(<<6, 0>>, [name |-> "H2"])>>,
   <<RawFacility(<<0, 0>>, [name |-> "H3"]), RawFacility(<<3, 0>>, [name |-> "H4"]),
     RawFacility(<<0, 1>>, [name |-> "H5"])>>}

\* fetchHealthcareFacilities: setHealthcareFacilities, and the effect on
\* healthcareFacilities that calls generateAccessPolygons.
HealthFetchDone ==
  /\ healthFetch = "pending"
  /\ \E response \in HealthResponses :
        /\ healthcareFacilities' = StoredFacilities(response)
        /\ accessPolygons' = generateAccessPolygons(StoredFacilities(response))
  /\ healthFetch' = "done"
  /\ UNCHANGED <<variant, net, view, runs, ret>>

HealthFetchFail ==
  /\ healthFetch = "pending"
  /\ healthFetch' = "failed"
  /\ UNCHANGED <<variant, net, view, healthcareFacilities, accessPolygons, runs, ret>>

Running(run) == run.status = "running"

\* The number of runs that have published a plan.
NumPublished == Cardinality({i \in 1..Len(runs) : runs[i].pubSeq > 0})

\* A click on "Build me a healthy plan": buildHealthyPlan up to its first await.
Trigger ==
  /\ mounted
  /\ Len(runs) < MaxRuns
  /\ LET cap == [userLocation |-> userLocation, environmentalData |-> environmentalData,
                 parks |-> parks, bikePaths |-> bikePaths,
                 bikePathsContent |-> bikePathsContent]
         note == [alone |-> \A i \in 1..Len(runs) : ~Running(runs[i]),
                  geoBefore |-> geo,
                  geoAfter |-> GeoAfterTrigger(geo, userLocation)]
     IN  runs' = Append(runs, buildHealthyPlan_Start(variant, cap, note))
  /\ geo' = GeoAfterTrigger(geo, userLocation)
  /\ UNCHANGED <<variant, mounted, envFetch, parksFetch, contentFetch, view, ret>>
  /\ UNCHANGED health

\* The writes that end a run: setHealthyPlan, and in part_000
\* setSelectedParkId and setParks when the destination has a common_name.
TagsPark(run) ==
  /\ variant = "part_000"
  /\ run.cap.parks # NULL
  /\ HasParkId(run.bestLocation)

Publish(i, run) ==
  /\ healthyPlan' = PlanOf(run.bestParcel, run.bestLocation, run.guide)
  /\ selectedParkId' = (IF TagsPark(run)
                        THEN run.bestLocation.properties.common_name
                        ELSE selectedParkId)
  /\ parks' = (IF TagsPark(run)
               THEN TagSelected(run.cap.parks, run.bestLocation.properties.common_name)
               ELSE parks)
  /\ runs' = [runs EXCEPT ![i] = [run EXCEPT !.status = "published",
                                             !.pubSeq = NumPublished + 1]]

Outcome(serviceOk) == IF serviceOk THEN "ok" ELSE "failed"

\* The narrative request of run i settles (serviceOk: the service answered);
\* buildHealthyPlan goes on to its next await, or to its end.
NarrativeSettles(i, serviceOk) ==
  /\ runs[i].narrative = "pending"
  /\ LET result == generateParkGuide_Result(serviceOk)
         run == [runs[i] EXCEPT !.narrative = Outcome(serviceOk),
                                !.guide = IF result = Rejected THEN "" ELSE result.value]
     IN  IF result = Rejected
         THEN /\ runs' = [runs EXCEPT ![i] = [run EXCEPT !.status = "threw"]]
              /\ UNCHANGED view
         ELSE IF RequestsRoute(variant, run.cap)
         THEN /\ runs' = [runs EXCEPT ![i] = [run EXCEPT !.directions = "pending"]]
              /\ UNCHANGED view
         ELSE /\ Publish(i, run)
              /\ UNCHANGED <<userLocation, environmentalData, bikePaths, bikePathsContent,
                             route>>
  /\ UNCHANGED <<variant, net, ret>>
  /\ UNCHANGED health

\* The directions request of run i settles: setRoute(routeGeojson), then the
\* rest of buildHealthyPlan to its end.
RouteSettles(i, serviceOk) ==
  /\ runs[i].directions = "pending"
  /\ LET result == getRoute(runs[i].cap.userLocation, center(runs[i].bestLocation),
                            serviceOk)
         run == [runs[i] EXCEPT !.directions = Outcome(serviceOk)]
     IN  IF result = Rejected
         THEN /\ runs' = [runs EXCEPT ![i] = [run EXCEPT !.status = "threw"]]
              /\ UNCHANGED view
         ELSE /\ route' = RouteWritten(route, result.value)
              /\ Publish(i, run)
              /\ UNCHANGED <<userLocation, environmentalData, bikePaths, bikePathsContent>>
  /\ UNCHANGED <<variant, net, ret>>
  /\ UNCHANGED health

Next ==
  \/ Mount
  \/ GeoSuccess
  \/ GeoError
  \/ EnvFetchDone
  \/ EnvFetchFail
  \/ ParksFetchDone
  \/ ParksFetchFail
  \/ ContentFetchDone
  \/ ContentFetchFail
  \/ HealthFetchDone
  \/ HealthFetchFail
  \/ Trigger
  \/ \E i \in 1..Len(runs), serviceOk \in BOOLEAN : NarrativeSettles(i, serviceOk)
  \/ \E i \in 1..Len(runs), serviceOk \in BOOLEAN : RouteSettles(i, serviceOk)

Spec == Init /\ [][Next]_vars

\* Every external call of a run eventually resolves or rejects: the request
\* a run awaits is eventually settled (a settling step always changes runs).
RequestsSettle ==
  \A i \in 1..MaxRuns :
     /\ WF_runs(i \in 1..Len(runs) /\ \E serviceOk \in BOOLEAN : NarrativeSettles(i, serviceOk))
     /\ WF_runs(i \in 1..Len(runs) /\ \E serviceOk \in BOOLEAN : RouteSettles(i, serviceOk))

SpecLive == Spec /\ RequestsSettle

(***************************************************************************)
(* Properties of the ranker (SpecRank).                                    *)
(***************************************************************************)
RankCalled == ret # NoCall /\ ret.fn = "findBestEnvironmentalParcel"

\* The parcel's representative point is inside the 2-mile buffer of the user.
InRange(f) ==
  /\ userLocation # NULL
  /\ booleanPointInBuffer(center(f), buffer(userLocation, BUFFER_MILES))

ParkInside(f) ==
  /\ parks # NULL
  /\ \E i \in 1..Len(parks.features) : center(parks.features[i]) \in f.geometry.coordinates

TrailInside(f) ==
  /\ bikePaths # NULL
  /\ \E i \in 1..Len(bikePaths.features) :
        center(bikePaths.features[i]) \in f.geometry.coordinates

Percentile(f) == f.properties.percentile

DistinctScores ==
  \A i, j \in 1..Len(environmentalData.features) :
     i # j => Percentile(environmentalData.features[i]) # Percentile(environmentalData.features[j])

\* The parcels the claim calls qualifying: in range, with a park or a trail inside.
ClaimQualifying ==
  {i \in 1..Len(environmentalData.features) :
     /\ InRange(environmentalData.features[i])
     /\ ParkInside(environmentalData.features[i]) \/ TrailInside(environmentalData.features[i])}

\* The parcels the ranker of the variant accepts: in range and, in part_000,
\* with a park inside.
Accepted ==
  {i \in 1..Len(environmentalData.features) :
     /\ InRange(environmentalData.features[i])
     /\ variant = "part_000" => ParkInside(environmentalData.features[i])}

\* The first index, in features order, of the greatest percentile within I.
FirstBest(I) ==
  CHOOSE i \in I :
    \A j \in I :
       \/ Percentile(environmentalData.features[j]) < Percentile(environmentalData.features[i])
       \/ (Percentile(environmentalData.features[j]) = Percentile(environmentalData.features[i])
           /\ i <= j)

\* C1: with distinct percentile scores, findBestEnvironmentalParcel returns
\* the highest-percentile parcel among those in the 2-mile buffer that hold
\* the representative point of a park or a trail, and none when no parcel
\* qualifies.  (Stated for the states in which the parks are loaded.)
C1_HighestQualifyingParcel ==
  (RankCalled /\ DistinctScores /\ parks # NULL) =>
     IF ClaimQualifying = {} THEN ret.value = NULL
     ELSE ret.value = environmentalData.features[FirstBest(ClaimQualifying)]

DestCalled == ret # NoCall /\ ret.fn = "findBiggestParkOrTrail"

\* The indices of the features of a collection whose representative point is
\* inside the parcel the selector was called on.
InsideParcel(coll) ==
  {i \in 1..Len(coll.features) : center(coll.features[i]) \in ret.parcel.geometry.coordinates}

Acres(f) == f.properties.acres

\* C3: for a parcel with at least one park inside, findBiggestParkOrTrail
\* returns a park inside the parcel whose acres value is the greatest of the
\* parks inside, and among equal greatest the first in parks.features order.
C3_BiggestPark ==
  (DestCalled /\ parks # NULL /\ InsideParcel(parks) # {}) =>
     \E i \in InsideParcel(parks) :
        /\ ret.value = parks.features[i]
        /\ \A j \in InsideParcel(parks) :
              \/ Acres(parks.features[j]) < Acres(parks.features[i])
              \/ (Acres(parks.features[j]) = Acres(parks.features[i]) /\ i <= j)

\* Two parks inside the parcel tie on the greatest acres value, a park
\* outside or smaller is absent or not, and the first-listed one is returned.
C3_Witness ==
  /\ DestCalled
  /\ parks # NULL
  /\ \E i, j \in InsideParcel(parks) :
        /\ i < j
        /\ parks.features[i] # parks.features[j]
        /\ Acres(parks.features[i]) = Acres(parks.features[j])
        /\ ret.value = parks.features[i]

IsTrail(f) == f # NULL /\ f.geometry.type = "LineString"

\* C4: findBiggestParkOrTrail returns a trail only when no park is inside the
\* parcel, however many trails are; it then returns the first trail, in
\* bikePaths.features order, that is inside, and null when neither a park nor
\* a trail is inside.
C4_TrailOnlyWithoutPark ==
  (DestCalled /\ parks # NULL /\ bikePaths # NULL) =>
     /\ IsTrail(ret.value) => InsideParcel(parks) = {}
     /\ (InsideParcel(parks) = {} /\ InsideParcel(bikePaths) # {}) =>
           \E i \in InsideParcel(bikePaths) :
              /\ ret.value = bikePaths.features[i]
              /\ \A j \in InsideParcel(bikePaths) : i <= j
     /\ (InsideParcel(parks) = {} /\ InsideParcel(bikePaths) = {}) => ret.value = NULL

\* No park is inside, two different trails are, and the first was returned.
C4_Witness ==
  /\ DestCalled
  /\ parks # NULL
  /\ InsideParcel(parks) = {}
  /\ \E i, j \in InsideParcel(bikePaths) :
        /\ i < j
        /\ bikePaths.features[i] # bikePaths.features[j]
        /\ ret.value = bikePaths.features[i]

(***************************************************************************)
(* Properties of the plan builder (Spec).                                  *)
(***************************************************************************)
Finished(run) == run.status \in {"stopped", "threw", "published"}

\* Run i is the run whose setHealthyPlan was the last one.
LastPublisher(i) == runs[i].pubSeq > 0 /\ runs[i].pubSeq = NumPublished

\* The plan a run is to publish with the given narrative, field by field.
ExpectedPlan(run, guide) ==
  [type |-> IF run.bestLocation.geometry.type = "Polygon" THEN "Park" ELSE "Trail",
   location |-> run.bestLocation,
   environmentalRating |-> Percentile(run.bestParcel),
   guide |-> guide]

\* C5: when the narrative request fails, the run does not fail: it goes on
\* (to the route request where one is due) and publishes a plan whose guide
\* is the fixed fallback string and whose other fields are those of the
\* successful case.
C5_NarrativeFailureAbsorbed ==
  \A i \in 1..Len(runs) :
     runs[i].narrative = "failed" =>
        /\ runs[i].status \in {"running", "published"}
        /\ runs[i].guide = FALLBACK_GUIDE
        /\ runs[i].status = "running" => runs[i].directions = "pending"
        /\ runs[i].status = "published" => runs[i].pubSeq > 0
        /\ LastPublisher(i) => healthyPlan = ExpectedPlan(runs[i], FALLBACK_GUIDE)

\* A run whose narrative request failed has published, and its plan is the
\* one in view.
C5_Witness ==
  \E i \in 1..Len(runs) :
     /\ runs[i].narrative = "failed"
     /\ LastPublisher(i)
     /\ healthyPlan # NULL
     /\ healthyPlan.guide = FALLBACK_GUIDE

\* C6: when the directions request fails, the run still publishes its plan
\* (destination, score, narrative) and route is null afterwards, also when an
\* earlier plan had drawn a route.
C6_DirectionsFailureAbsorbed ==
  \A i \in 1..Len(runs) :
     runs[i].directions = "failed" =>
        /\ runs[i].status = "published"
        /\ runs[i].pubSeq > 0
        /\ LastPublisher(i) =>
              /\ route = NULL
              /\ healthyPlan = ExpectedPlan(runs[i], runs[i].guide)

\* An earlier run drew a route; a later run's directions request failed, the
\* later run has published and route is null.
C6_Witness ==
  \E i, j \in 1..Len(runs) :
     /\ runs[i].directions = "ok"
     /\ runs[i].pubSeq > 0
     /\ runs[i].pubSeq < runs[j].pubSeq
     /\ runs[j].directions = "failed"
     /\ LastPublisher(j)
     /\ route = NULL
     /\ healthyPlan # NULL

\* No parcel of the captured environmentalData has its centre within 2 miles
\* of the captured user location.
NoParcelInRange(cap) ==
  \A k \in 1..Len(cap.environmentalData.features) :
     ~booleanPointInBuffer(center(cap.environmentalData.features[k]),
                           buffer(cap.userLocation, BUFFER_MILES))

\* C7: when the user location and the data are loaded and no parcel has its
\* representative point within 2 miles of the user, the triggered run ends
\* without a plan and without an exception, and issues no narrative or route
\* request.
C7_NoParcelInRangeStops ==
  \A i \in 1..Len(runs) :
     (/\ runs[i].cap.userLocation # NULL
      /\ runs[i].cap.environmentalData # NULL
      /\ runs[i].cap.parks # NULL
      /\ NoParcelInRange(runs[i].cap)) =>
        /\ runs[i].status = "stopped"
        /\ runs[i].narrative = "none"
        /\ runs[i].directions = "none"
        /\ runs[i].pubSeq = 0

\* C8 as claimed: a run triggered while the user location is absent starts a
\* location acquisition.
C8_OnDemandAcquisition ==
  \A i \in 1..Len(runs) :
     runs[i].cap.userLocation = NULL => runs[i].note.geoAfter = "pending"

\* C8 as amended: a run triggered while the user location is absent starts no
\* location acquisition (the geolocation state is as before the click); it
\* ends at once without ranking, without a request, without an exception and
\* without a plan.  Only a run that captured a location ranks parcels.
C8_NoAcquisitionOnTrigger ==
  \A i \in 1..Len(runs) :
     /\ runs[i].cap.userLocation = NULL =>
           /\ runs[i].note.geoAfter = runs[i].note.geoBefore
           /\ runs[i].status = "stopped"
           /\ runs[i].bestParcel = NULL
           /\ runs[i].narrative = "none"
           /\ runs[i].directions = "none"
           /\ runs[i].pubSeq = 0
     /\ runs[i].bestParcel # NULL => runs[i].cap.userLocation # NULL

\* The mount-time acquisition has failed, the data are loaded, and a run was
\* triggered without a location: it has stopped.
C8_Witness ==
  \E i \in 1..Len(runs) :
     /\ runs[i].cap.userLocation = NULL
     /\ runs[i].note.geoBefore = "error"
     /\ runs[i].cap.environmentalData # NULL
     /\ runs[i].cap.parks # NULL
     /\ runs[i].status = "stopped"

Settled(outcome) == outcome \in {"ok", "failed"}

\* C9: within one run the stages are ordered: a destination is selected only
\* from a ranked parcel, the narrative request is issued only for a selected
\* destination, the route request only after the narrative request has
\* settled, and the plan is published only after the route request has
\* settled; so the two requests of a run are never in flight together.
C9_StagesInOrder ==
  \A i \in 1..Len(runs) :
     /\ runs[i].bestLocation # NULL => runs[i].bestParcel # NULL
     /\ runs[i].narrative # "none" => runs[i].bestLocation # NULL
     /\ runs[i].directions # "none" => Settled(runs[i].narrative)
     /\ ~(runs[i].narrative = "pending" /\ runs[i].directions = "pending")
     /\ runs[i].pubSeq > 0 =>
           /\ Settled(runs[i].narrative)
           /\ runs[i].directions # "pending"
           /\ RequestsRoute(variant, runs[i].cap) => Settled(runs[i].directions)

\* A run of part_000 has gone through every stage: its route request was
\* issued and has settled, and it has published.
C9_Witness ==
  \E i \in 1..Len(runs) :
     /\ variant = "part_000"
     /\ Settled(runs[i].narrative)
     /\ Settled(runs[i].directions)
     /\ runs[i].pubSeq > 0

IsSelected(f) == HasProp(f, "selected") /\ f.properties.selected

\* The names of the parks that carry selected = true.
SelectedNames ==
  IF parks = NULL THEN {}
  ELSE {parks.features[k].properties.common_name :
          k \in {n \in 1..Len(parks.features) : IsSelected(parks.features[n])}}

\* No earlier run has written the view state after the given run did.
NotOverwritten(k) ==
  \A j \in 1..(k - 1) :
     (runs[j].pubSeq > 0 /\ runs[k].pubSeq > 0) => runs[j].pubSeq < runs[k].pubSeq

\* C10: once the latest trigger has finished, the view state is that run's
\* outcome alone: its plan, its route (null when its route request failed or
\* was not issued) and its highlight (none when it tags no park); no plan,
\* no route and no highlight when it stopped or threw.  (A late write by an
\* earlier, overlapping run is the subject of C19.)
C10_LatestTriggerOnly ==
  LET k == Len(runs)
  IN  (k > 0 /\ Finished(runs[k]) /\ NotOverwritten(k)) =>
         IF runs[k].status = "published"
         THEN /\ healthyPlan = ExpectedPlan(runs[k], runs[k].guide)
              /\ route = (IF runs[k].directions = "ok"
                          THEN RouteFeature(runs[k].cap.userLocation,
                                            center(runs[k].bestLocation))
                          ELSE NULL)
              /\ selectedParkId = (IF TagsPark(runs[k])
                                   THEN runs[k].bestLocation.properties.common_name
                                   ELSE NULL_ID)
              /\ SelectedNames = (IF TagsPark(runs[k])
                                  THEN {runs[k].bestLocation.properties.common_name}
                                  ELSE {})
         ELSE /\ healthyPlan = NULL
              /\ route = NULL
              /\ selectedParkId = NULL_ID
              /\ SelectedNames = {}

\* A first run published a plan with a route and the service's guide; a
\* second run, triggered after it, published with a failed route request
\* and the fallback guide, and only the second run's outcome is in view.
C10_Witness ==
  /\ Len(runs) = 2
  /\ runs[1].pubSeq = 1
  /\ runs[1].directions = "ok"
  /\ runs[1].guide = SERVICE_GUIDE
  /\ runs[2].note.alone
  /\ runs[2].pubSeq = 2
  /\ runs[2].directions = "failed"
  /\ runs[2].guide = FALLBACK_GUIDE
  /\ route = NULL
  /\ healthyPlan.guide = FALLBACK_GUIDE

(***************************************************************************)
(* Properties of the stored collections (Spec).                            *)
(***************************************************************************)
\* Every feature of a collection of the view state has its centre inside
\* SD_BOUNDS (a collection not loaded holds no feature).
AllWithinSanDiego(coll) ==
  coll # NULL =>
     \A k \in 1..Len(coll.features) : isWithinSanDiego(center(coll.features[k]))

\* C11: in every reachable state every parcel of environmentalData, every
\* park of parks and every trail of bikePaths has its representative point
\* inside SD_BOUNDS.
C11_AllFeaturesInBounds ==
  /\ AllWithinSanDiego(environmentalData)
  /\ AllWithinSanDiego(parks)
  /\ AllWithinSanDiego(bikePaths)

\* A fetch settles in this step.
Settles(f) == f = "pending" /\ f' # "pending"

\* C12: the completion of a fetch writes its own slice only, what it writes
\* is the stored form of its response whatever the other slices hold, and a
\* failed fetch leaves its own slice unset; so the completions commute.
C12_FetchesCommute ==
  [][/\ Settles(envFetch) =>
          /\ UNCHANGED <<userLocation, parks, bikePaths, bikePathsContent, healthyPlan,
                         route, selectedParkId, healthcareFacilities, accessPolygons>>
          /\ envFetch' = "failed" => environmentalData = NULL /\ environmentalData' = NULL
          /\ envFetch' = "done" =>
                \E response \in EnvResponses :
                   environmentalData' = StoredEnvironmentalData(response)
     /\ Settles(parksFetch) =>
          /\ UNCHANGED <<userLocation, environmentalData, bikePaths, bikePathsContent,
                         healthyPlan, route, selectedParkId, healthcareFacilities,
                         accessPolygons>>
          /\ parksFetch' = "failed" => parks = NULL /\ parks' = NULL
          /\ parksFetch' = "done" =>
                \E response \in ParksResponses : parks' = StoredParks(response)
     /\ Settles(contentFetch) =>
          /\ UNCHANGED <<userLocation, environmentalData, parks, bikePaths, healthyPlan,
                         route, selectedParkId, healthcareFacilities, accessPolygons>>
          /\ contentFetch' = "failed" => bikePathsContent = NULL /\ bikePathsContent' = NULL
          /\ contentFetch' = "done" => bikePathsContent' = BikePathsData
     /\ Settles(healthFetch) =>
          /\ UNCHANGED view
          /\ healthFetch' = "failed" =>
                /\ healthcareFacilities = NULL /\ healthcareFacilities' = NULL
                /\ accessPolygons = NULL /\ accessPolygons' = NULL
          /\ healthFetch' = "done" =>
                \E response \in HealthResponses :
                   /\ healthcareFacilities' = StoredFacilities(response)
                   /\ accessPolygons' = generateAccessPolygons(healthcareFacilities')
    ]_vars

\* The fetches of Map.js have all settled, some with a response and one with
\* a failure, and the failed one's slice is unset beside the loaded ones.
C12_Witness ==
  /\ variant = "Map.js"
  /\ envFetch = "done" /\ environmentalData # NULL
  /\ healthFetch = "done" /\ healthcareFacilities # NULL /\ accessPolygons # NULL
  /\ parksFetch = "failed" /\ parks = NULL

(***************************************************************************)
(* Properties of the direct calls on features that may lack an attribute   *)
(* (SpecAttr).                                                             *)
(***************************************************************************)
GuideCalled == ret # NoCall /\ ret.fn = "generateParkGuide"

IsPark(f) == f # NULL /\ f.geometry.type = "Polygon"

\* A park without acres is returned only if no park inside the parcel has an
\* acres value.
AcresLessParkRanksLowest ==
  (DestCalled /\ IsPark(ret.value) /\ ~HasProp(ret.value, "acres")) =>
     \A i \in InsideParcel(parks) : ~HasProp(parks.features[i], "acres")

\* A parcel without percentile is chosen only if no parcel the ranker
\* accepts has a percentile value.
UnscoredParcelRanksLowest ==
  (RankCalled /\ ret.value # NULL /\ ret.value # THROWN /\ ~HasProp(ret.value, "percentile")) =>
     \A i \in Accepted : ~HasProp(environmentalData.features[i], "percentile")

\* The narrative stage does not throw on a destination without acres.
GuideSurvivesMissingAcres ==
  (GuideCalled /\ ~HasProp(ret.park, "acres")) => ret.value # Rejected

\* C13: features with a missing numeric attribute rank lowest (a park
\* without acres, a parcel without percentile) and do not crash the
\* pipeline.
C13_MissingAttributesRankLowest ==
  /\ AcresLessParkRanksLowest
  /\ UnscoredParcelRanksLowest
  /\ GuideSurvivesMissingAcres

(***************************************************************************)
(* Properties of the selected-park tag (Spec).                             *)
(***************************************************************************)
\* A feature without its selected flag.
Untagged(f) ==
  [f EXCEPT !.properties = [k \in DOMAIN f.properties \ {"selected"} |-> f.properties[k]]]

UntaggedCollection(coll) ==
  [coll EXCEPT !.features = [k \in 1..Len(coll.features) |-> Untagged(coll.features[k])]]

SelectedIndices == {k \in 1..Len(parks.features) : IsSelected(parks.features[k])}

\* C14: when no plan run is in flight, at most one feature of parks carries
\* selected = true, that feature is the destination of the published plan,
\* and apart from the selected flag parks is a collection as fetchParks
\* stored it.
C14_AtMostOneSelected ==
  (parks # NULL /\ \A i \in 1..Len(runs) : Finished(runs[i])) =>
     /\ Cardinality(SelectedIndices) <= 1
     /\ \A k \in SelectedIndices :
           /\ healthyPlan # NULL
           /\ Untagged(parks.features[k]) = Untagged(healthyPlan.location)
     /\ UntaggedCollection(parks) \in {StoredParks(response) : response \in ParksResponses}

(***************************************************************************)
(* Properties of the published plan (Spec).                                *)
(***************************************************************************)
\* The feature is one of the features of the collection.
TakenFrom(f, coll) == coll # NULL /\ \E k \in 1..Len(coll.features) : coll.features[k] = f

\* C15: the published plan is consistent with the run that published it:
\* its type is Park exactly when its destination is a feature of the parks
\* the run read and Trail exactly when a feature of the trails, its
\* environmentalRating is the percentile of the parcel the ranker returned
\* in that run, and the destination's centre is inside that parcel.
C15_PlanConsistent ==
  \A i \in 1..Len(runs) :
     LastPublisher(i) =>
        /\ healthyPlan # NULL
        /\ healthyPlan.location = runs[i].bestLocation
        /\ healthyPlan.type \in {"Park", "Trail"}
        /\ healthyPlan.type = "Park" <=> TakenFrom(healthyPlan.location, runs[i].cap.parks)
        /\ healthyPlan.type = "Trail" <=> TakenFrom(healthyPlan.location, runs[i].cap.bikePaths)
        /\ runs[i].bestParcel = BestParcel(variant, runs[i].cap.userLocation,
                                           runs[i].cap.environmentalData, runs[i].cap.parks)
        /\ healthyPlan.environmentalRating = runs[i].bestParcel.properties.percentile
        /\ center(healthyPlan.location) \in runs[i].bestParcel.geometry.coordinates

\* A plan whose destination is a trail has been published.
C15_Witness ==
  \E i \in 1..Len(runs) :
     /\ LastPublisher(i)
     /\ healthyPlan # NULL
     /\ healthyPlan.type = "Trail"
     /\ TakenFrom(healthyPlan.location, bikePaths)

(***************************************************************************)
(* Termination of the plan runs (SpecLive).                                *)
(***************************************************************************)
\* Run i has been triggered and has ended without an exception: it
\* published a plan, or it stopped with none.
Terminal(i) == i \in 1..Len(runs) /\ runs[i].status \in {"published", "stopped"}

\* Run i has been triggered and has ended, one way or another.
Ended(i) == i \in 1..Len(runs) /\ Finished(runs[i])

\* No run has ended by an uncaught exception.
NoRunThrew == \A i \in 1..Len(runs) : runs[i].status # "threw"

\* Every triggered run eventually ends.
EveryRunEnds == \A i \in 1..MaxRuns : (i \in 1..Len(runs)) ~> Ended(i)

\* C16: every trigger eventually reaches a terminal outcome, a published
\* plan or a stop without a plan, and no run ends by an uncaught exception.
C16_EveryRunTerminates ==
  /\ []NoRunThrew
  /\ \A i \in 1..MaxRuns : (i \in 1..Len(runs)) ~> Terminal(i)

(***************************************************************************)
(* Properties of the in-range filter (SpecFilter).                         *)
(***************************************************************************)
FilterCalled == ret # NoCall /\ ret.fn = "parcelsInRange"

\* The indices of the parcels whose centre is inside the 2-mile buffer.
InRangeIndices ==
  {i \in 1..Len(environmentalData.features) : InRange(environmentalData.features[i])}

\* The k-th smallest element of a set of indices.
KthOf(I, k) == CHOOSE i \in I : Cardinality({j \in I : j < i}) = k - 1

\* The filter's result is the in-range parcels, each once, in features order.
FilterKeepsInRangeInOrder ==
  FilterCalled =>
     /\ Len(ret.value) = Cardinality(InRangeIndices)
     /\ \A k \in 1..Len(ret.value) :
           ret.value[k] = environmentalData.features[KthOf(InRangeIndices, k)]

\* C17: the in-range filter keeps exactly the parcels whose centre lies in
\* the 2-mile buffer of the user, in the order of the input collection, and
\* no step of the filter changes the stored environmentalData.
C17_FilterExactInOrder ==
  /\ []FilterKeepsInRangeInOrder
  /\ [][environmentalData' = environmentalData]_vars

\* Of three parcels the middle one is out of range; the first and the third
\* were kept, in that order.
C17_Witness ==
  /\ FilterCalled
  /\ Len(environmentalData.features) = 3
  /\ InRangeIndices = {1, 3}
  /\ ret.value = <<environmentalData.features[1], environmentalData.features[3]>>

AgainCalled == ret # NoCall /\ ret.fn = "filterAgain"

\* C18: the filter applied, with the same origin and radius, to a collection
\* that is its own output returns that collection: same features, same
\* order.
C18_FilterIdempotent == AgainCalled => ret.value = ret.input

\* The first filtering dropped a parcel and kept two; the second filtering
\* returned the two.
C18_Witness ==
  /\ AgainCalled
  /\ Len(ret.input) = 2
  /\ Len(environmentalData.features) = 3
  /\ Len(ret.value) = 2

(***************************************************************************)
(* Properties of overlapping plan runs (Spec).                             *)
(***************************************************************************)
\* The route a published run leaves when it is the only writer.
RouteOf(run) ==
  IF run.directions = "ok"
  THEN RouteFeature(run.cap.userLocation, center(run.bestLocation))
  ELSE NULL

\* C19: when a run was triggered while an earlier run was in flight and all
\* runs have finished, the view state is that of the later trigger: its
\* plan, its route and its highlight, whatever the order in which the
\* services answered.
C19_LaterTriggerWins ==
  LET k == Len(runs)
  IN  (/\ k >= 2
       /\ ~runs[k].note.alone
       /\ \A i \in 1..k : Finished(runs[i])
       /\ runs[k].status = "published") =>
         /\ healthyPlan = ExpectedPlan(runs[k], runs[k].guide)
         /\ route = RouteOf(runs[k])
         /\ selectedParkId = (IF TagsPark(runs[k])
                              THEN runs[k].bestLocation.properties.common_name
                              ELSE NULL_ID)

(***************************************************************************)
(* Properties of generateParkGuide (SpecAttr).                             *)
(***************************************************************************)
\* C20: for every destination findBiggestParkOrTrail returns, a park or a
\* trail, with or without acres, generateParkGuide resolves: to the text of
\* the narrative service when the request succeeds and to the fixed fallback
\* string when it fails; it never rejects.
C20_GuideNeverRejects ==
  GuideCalled =>
     ret.value = (IF ret.serviceOk THEN Resolved(SERVICE_GUIDE) ELSE Resolved(FALLBACK_GUIDE))

(***************************************************************************)
(* Properties of the pipeline of part_000 (Spec).                          *)
(***************************************************************************)
\* A trail of the collection has its centre inside the parcel.
TrailIn(parcel, coll) ==
  \E k \in 1..Len(coll.features) : center(coll.features[k]) \in parcel.geometry.coordinates

\* C21: in part_000, whenever the ranker of a run returns a parcel and the
\* bike paths are loaded, the selector of that run returns a park of the
\* parks the run read, never a trail and never null; hence every plan that
\* variant publishes has type Park.
C21_AlwaysPark ==
  variant = "part_000" =>
     \A i \in 1..Len(runs) :
        /\ (runs[i].bestParcel # NULL /\ runs[i].cap.bikePaths # NULL) =>
              /\ IsPark(runs[i].bestLocation)
              /\ TakenFrom(runs[i].bestLocation, runs[i].cap.parks)
        /\ LastPublisher(i) => (healthyPlan # NULL /\ healthyPlan.type = "Park")

\* A run of part_000 has published a Park plan for a parcel that also has a
\* trail inside: the trail was there to fall back on and was not used.
C21_Witness ==
  \E i \in 1..Len(runs) :
     /\ variant = "part_000"
     /\ LastPublisher(i)
     /\ healthyPlan # NULL
     /\ healthyPlan.type = "Park"
     /\ TrailIn(runs[i].bestParcel, runs[i].cap.bikePaths)

\* The call of the run ended in a required stage: an input was not loaded,
\* the ranker gave no parcel, or the selector gave no destination.
EndedInRequiredStage(run) == run.bestLocation = NULL

\* The run has asked for neither the narrative nor the directions and has
\* published nothing.
NoRequest(run) == run.narrative = "none" /\ run.directions = "none" /\ run.pubSeq = 0

\* C22: a trigger that ends in a required stage issues no narrative and no
\* directions request, then or later, and the step of the trigger leaves
\* healthyPlan, route, selectedParkId and parks as they were.
C22_StopLeavesStateAlone ==
  [][\A i \in 1..Len(runs') :
        EndedInRequiredStage(runs'[i]) =>
           /\ NoRequest(runs'[i])
           /\ runs'[i].status # "running"
           /\ IF i > Len(runs)
              THEN UNCHANGED <<healthyPlan, route, selectedParkId, parks>>
              ELSE runs'[i] = runs[i]]_vars

\* One trigger stopped because the user location was not loaded, and a later
\* one, with every input loaded, because the best parcel has no destination.
C22_Witness ==
  \E i, j \in 1..Len(runs) :
     /\ i < j
     /\ runs[i].status = "stopped"
     /\ runs[i].cap.userLocation = NULL
     /\ runs[j].status = "stopped"
     /\ runs[j].bestParcel # NULL
     /\ runs[j].bestLocation = NULL

====
